---- MODULE Spec2Model ----
(***************************************************************************)
(* State-machine model of cpu.py: the polling agent that reads data.json,  *)
(* evaluates the four candidate models on the latest completed issue,      *)
(* optionally switches the active model and republishes predictions.txt.   *)
(*                                                                         *)
(* Python values are represented as follows.                               *)
(*   dict            a TLA+ record/function whose DOMAIN is the key set    *)
(*   list            a sequence                                            *)
(*   None            NoneS where a label is expected, NoneV where an       *)
(*                   entry is expected                                     *)
(*   accuracy, conf  integers in units of 1/10000 (0.4928 is 4928)         *)
(*   str.upper()     the operator Upper                                    *)
(***************************************************************************)
EXTENDS Integers, Sequences, FiniteSets, TLC

VARIABLES
    pc,               \* position of main(): start, load_config, fetch_complete, fetch_next, process, except, wait, crashed
    current_model,    \* global current_model
    auto_switching,   \* global auto_switching
    config,           \* content of config.json (external, read once)
    feed,             \* content of data.json (external, may be rewritten)
    latest_result,    \* local latest_result of main()
    next_prediction,  \* local next_prediction of main()
    published,        \* content of predictions.txt
    cycle_log,        \* lines appended to cpu.logs since the current loop iteration (or the process) began
    err,              \* exception in flight towards "except Exception" of main()
    model_before,     \* current_model on entry to the last evaluate_models call
    evaluation_report, \* local evaluation_report of main() (last evaluate_models result)
    steps,            \* steps of the try body completed in the current iteration
    hist              \* observer of repeated iterations on one feed: see Observe

vars == <<pc, current_model, auto_switching, config, feed, latest_result,
          next_prediction, published, cycle_log, err, model_before,
          evaluation_report, steps, hist>>

----------------------------------------------------------------------------
(* Python values *)

NoneS == "<None>"
NoneV == [none |-> TRUE]
EmptyDict == [k \in {} |-> NoneS]
NoErr == [kind |-> "none", where |-> "none"]

Get(d, k, default) == IF k \in DOMAIN d THEN d[k] ELSE default

Truthy_Always(v) == TRUE
\* dict/str/list truthiness as used by "if latest_result and next_prediction"
Truthy(v) == v # NoneV /\ DOMAIN v # {}

----------------------------------------------------------------------------
(* Global state of the module: model_stats, defaults *)

ModelOrder == <<"Model 1", "Model 2", "Model 3", "Model 4">>
Models == {ModelOrder[i] : i \in DOMAIN ModelOrder}

model_stats ==
    [m \in Models |->
        [accuracy |-> CASE m = "Model 1" -> 4928
                        [] m = "Model 2" -> 4932
                        [] m = "Model 3" -> 4926
                        [] m = "Model 4" -> 4974]]

DefaultModel == "Model 2"
DefaultAuto == TRUE

IndexOf(seq, x) == CHOOSE i \in DOMAIN seq : seq[i] = x

\* sorted(model_stats.items(), key=accuracy, reverse=True): descending by
\* accuracy, equal keys keep their dict order (the sort is stable).
sorted_models ==
    CHOOSE s \in [DOMAIN ModelOrder -> Models] :
        /\ \A i, j \in DOMAIN s : i # j => s[i] # s[j]
        /\ \A i, j \in DOMAIN s : i < j =>
              \/ model_stats[s[i]].accuracy > model_stats[s[j]].accuracy
              \/ /\ model_stats[s[i]].accuracy = model_stats[s[j]].accuracy
                 /\ IndexOf(ModelOrder, s[i]) < IndexOf(ModelOrder, s[j])

----------------------------------------------------------------------------
(* Labels and str.upper() *)

Labels == {"x", "X", "y"}

Upper(s) ==
    CASE s = "x" -> "X"
      [] s = "X" -> "X"
      [] s = "y" -> "Y"
      [] s = "Model 1" -> "MODEL 1"
      [] s = "Model 2" -> "MODEL 2"
      [] s = "Model 3" -> "MODEL 3"
      [] s = "Model 4" -> "MODEL 4"
      [] s = "Model 9" -> "MODEL 9"
      [] OTHER -> s

----------------------------------------------------------------------------
(* evaluate_models *)

Actual(latest_issue) == Get(latest_issue, "actual", NoneS)
Pred(latest_issue, m) == Get(Get(latest_issue, "predictions", EmptyDict), m, NoneS)

Evaluated_PredOnly(latest_issue) ==
    {m \in Models : Pred(latest_issue, m) # NoneS}
\* the models that pass "if actual is None or pred is None: continue"
Evaluated(latest_issue) ==
    {m \in Models : Actual(latest_issue) # NoneS /\ Pred(latest_issue, m) # NoneS}

\* pred == actual
IsWin(pred, actual) == pred = actual

\* the dict losses after the for loop
Losses(latest_issue) ==
    [m \in Evaluated(latest_issue) |->
        IF IsWin(Pred(latest_issue, m), Actual(latest_issue)) THEN 0 ELSE 1]

ReportLine(latest_issue, m) ==
    [model |-> Upper(m),
     pred |-> Upper(Pred(latest_issue, m)),
     actual |-> Upper(Actual(latest_issue)),
     result |-> IF IsWin(Pred(latest_issue, m), Actual(latest_issue))
                THEN "WIN" ELSE "LOSS",
     accuracy |-> model_stats[m].accuracy]

\* the list report after the for loop (model_stats iteration order)
Report(latest_issue) ==
    LET ev == SelectSeq(ModelOrder, LAMBDA m : m \in Evaluated(latest_issue))
    IN  [i \in DOMAIN ev |-> ReportLine(latest_issue, ev[i])]

AutoSwitchApplies_NoModeCheck(auto, losses, cur) ==
    cur \in DOMAIN losses /\ losses[cur] = 1
AutoSwitchApplies_AnyEvaluated(auto, losses, cur) ==
    auto /\ cur \in DOMAIN losses
\* "if auto_switching:" and "if current_model in losses and losses[current_model] == 1:"
AutoSwitchApplies(auto, losses, cur) ==
    auto /\ cur \in DOMAIN losses /\ losses[cur] = 1

SwitchCandidates_AnyOther(losses, cur) ==
    SelectSeq(sorted_models, LAMBDA name : name # cur)
\* the names at which the for loop over sorted_models would break
SwitchCandidates(losses, cur) ==
    SelectSeq(sorted_models, LAMBDA name : name # cur /\ Get(losses, name, 0) = 0)

\* evaluate_models(latest_issue) with current_model = cur, auto_switching = auto;
\* logOk tells whether a log_message call made by it succeeds.
\* raised: log_message raised (before any assignment to current_model).
EvaluateModels(latest_issue, cur, auto, logOk) ==
    LET losses == Losses(latest_issue)
        cands == SwitchCandidates(losses, cur)
        base == [report |-> Report(latest_issue), selected |-> cur,
                 log |-> <<>>, raised |-> FALSE]
    IN  IF AutoSwitchApplies(auto, losses, cur)
        THEN IF cands # <<>>
             THEN IF logOk
                  THEN [base EXCEPT !.selected = cands[1],
                            !.log = <<[kind |-> "switch", from |-> cur, to |-> cands[1]]>>]
                  ELSE [base EXCEPT !.raised = TRUE]
             ELSE [base EXCEPT !.selected = sorted_models[1]]
        ELSE IF auto
             THEN base
             ELSE IF logOk
                  THEN [base EXCEPT !.log = <<[kind |-> "manual", model |-> cur]>>]
                  ELSE [base EXCEPT !.raised = TRUE]

----------------------------------------------------------------------------
(* load_data: the feed document and its normalisation *)

\* A feed document (content of data.json) is one of
\*   [t |-> "unreadable"]          no file, or not valid JSON
\*   [t |-> "scalar"]              valid JSON that is neither object nor array
\*   [t |-> "list", items |-> <<>>]  a JSON array of entries (dicts)
\*   [t |-> "dict", v |-> [..]]    a JSON object
\* A confidence field is [t |-> "str", v |-> <<chars>>] or [t |-> "num", v |-> <<>>].

model_mapping ==
    [raw \in {"LogisticRegression", "HoeffdingTree", "NaiveBayes", "BaggingClassifier"} |->
        CASE raw = "LogisticRegression" -> "Model 1"
          [] raw = "HoeffdingTree" -> "Model 2"
          [] raw = "NaiveBayes" -> "Model 3"
          [] raw = "BaggingClassifier" -> "Model 4"]

\* model_mapping.get(raw)
MappedName(raw) == Get(model_mapping, raw, NoneS)

Digits == <<"0", "1", "2", "3", "4", "5", "6", "7", "8", "9">>
IsDigit(c) == \E i \in DOMAIN Digits : Digits[i] = c
DigitVal(c) == IndexOf(Digits, c) - 1

\* s.strip('%'): drop every leading and trailing percent sign
RECURSIVE StripPercent(_)
StripPercent(s) ==
    IF s = <<>> THEN s
    ELSE IF Head(s) = "%" THEN StripPercent(Tail(s))
    ELSE IF s[Len(s)] = "%" THEN StripPercent(SubSeq(s, 1, Len(s) - 1))
    ELSE s

\* value of a non-empty digit string, -1 if it is not one
RECURSIVE ParseInt(_)
ParseInt(s) ==
    IF s = <<>> THEN -1
    ELSE IF ~IsDigit(s[Len(s)]) THEN -1
    ELSE IF Len(s) = 1 THEN DigitVal(s[1])
    ELSE LET hi == ParseInt(SubSeq(s, 1, Len(s) - 1))
         IN  IF hi < 0 THEN -1 ELSE 10 * hi + DigitVal(s[Len(s)])

\* float(s) in tenths for the decimal literals "d+" and "d+.d"; -1 stands for
\* ValueError
ParseFloatTenths(s) ==
    IF Len(s) >= 3 /\ s[Len(s) - 1] = "."
    THEN LET whole == ParseInt(SubSeq(s, 1, Len(s) - 2))
         IN  IF whole < 0 \/ ~IsDigit(s[Len(s)]) THEN -1
             ELSE 10 * whole + DigitVal(s[Len(s)])
    ELSE LET whole == ParseInt(s) IN IF whole < 0 THEN -1 ELSE 10 * whole

ParseConfidence_Unguarded(model) ==
    IF "confidence" \notin DOMAIN model THEN 0
    ELSE ParseFloatTenths(StripPercent(model.confidence.v)) * 10
\* try: float(model["confidence"].strip('%')) / 100.0  except: 0.0
ParseConfidence(model) ==
    IF "confidence" \notin DOMAIN model THEN 0
    ELSE IF model.confidence.t # "str" THEN 0
    ELSE LET tenths == ParseFloatTenths(StripPercent(model.confidence.v))
         IN  IF tenths < 0 THEN 0 ELSE tenths * 10

\* the indexes of the raw model records that pass "if name:"
MappedIdx(models) == {i \in DOMAIN models : MappedName(models[i].name) # NoneS}

LastIdx(models, name) ==
    CHOOSE i \in MappedIdx(models) :
        /\ MappedName(models[i].name) = name
        /\ \A j \in MappedIdx(models) : MappedName(models[j].name) = name => j <= i

\* the canonical names that receive a value in a section's dicts
MappedNames(models) == {MappedName(models[i].name) : i \in MappedIdx(models)}

\* entry["predictions"] after the loop over the models list
PredictionsDict(models) ==
    [name \in MappedNames(models) |-> models[LastIdx(models, name)].predicted_class]

\* next_entry["confidence"] after the loop over next_models
ConfidenceDict(models) ==
    [name \in MappedNames(models) |-> ParseConfidence(models[LastIdx(models, name)])]

\* a subscript of the section raises KeyError while its entry is built
SectionRaises(sec, withActual) ==
    \/ "models" \notin DOMAIN sec
    \/ "issue_id" \notin DOMAIN sec
    \/ withActual /\ sec.models # <<>> /\ "actual_class" \notin DOMAIN sec.models[1]
    \/ \E i \in DOMAIN sec.models :
          \/ "name" \notin DOMAIN sec.models[i]
          \/ /\ MappedName(sec.models[i].name) # NoneS
             /\ "predicted_class" \notin DOMAIN sec.models[i]

EvalEntry(sec) ==
    [issue |-> sec.issue_id,
     actual |-> IF sec.models # <<>> THEN sec.models[1].actual_class ELSE NoneS,
     predictions |-> PredictionsDict(sec.models)]

NextEntry(sec) ==
    [issue |-> sec.issue_id,
     predictions |-> PredictionsDict(sec.models),
     confidence |-> ConfidenceDict(sec.models)]

IsStructured(doc) ==
    /\ doc.t = "dict"
    /\ "evaluation" \in DOMAIN doc.v
    /\ "next_issue_prediction" \in DOMAIN doc.v

\* load_data() when data.json holds doc; logOk: the log_message call of the
\* except branch succeeds.  raised names the exception leaving load_data.
LoadData(doc, logOk) ==
    IF doc.t = "unreadable"
    THEN IF logOk
         THEN [raised |-> "none", data |-> [t |-> "list", items |-> <<>>],
               log |-> <<[kind |-> "load_error"]>>]
         ELSE [raised |-> "LogWriteError", data |-> NoneV, log |-> <<>>]
    ELSE IF IsStructured(doc)
    THEN IF \/ SectionRaises(doc.v.evaluation, TRUE)
            \/ SectionRaises(doc.v.next_issue_prediction, FALSE)
         THEN [raised |-> "KeyError", data |-> NoneV, log |-> <<>>]
         ELSE [raised |-> "none",
               data |-> [t |-> "list",
                         items |-> <<EvalEntry(doc.v.evaluation),
                                 NextEntry(doc.v.next_issue_prediction)>>],
               log |-> <<>>]
    ELSE [raised |-> "none", data |-> doc, log |-> <<>>]

LatestWith_First(data, wantActual) ==
    LET hits == {i \in DOMAIN data.items : ("actual" \in DOMAIN data.items[i]) = wantActual}
    IN  IF hits = {} THEN NoneV
        ELSE data.items[CHOOSE i \in hits : \A j \in hits : i <= j]
\* for entry in reversed(data): if <wanted shape>: return entry / return None
LatestWith(data, wantActual) ==
    LET hits == {i \in DOMAIN data.items : ("actual" \in DOMAIN data.items[i]) = wantActual}
    IN  IF hits = {} THEN NoneV
        ELSE data.items[CHOOSE i \in hits : \A j \in hits : j <= i]

\* get_latest_complete (wantActual) / get_next_prediction_entry (~wantActual)
Accessor(doc, wantActual, logOk) ==
    LET ld == LoadData(doc, logOk)
    IN  IF ld.raised # "none"
        THEN [raised |-> ld.raised, where |-> "load_data", value |-> NoneV, log |-> ld.log]
        ELSE IF ld.data.t # "list"
        THEN [raised |-> "TypeError", where |-> "reversed", value |-> NoneV, log |-> ld.log]
        ELSE [raised |-> "none", where |-> "none",
              value |-> LatestWith(ld.data, wantActual), log |-> ld.log]

----------------------------------------------------------------------------
(* main: rendering and publishing *)

\* next_prediction["predictions"].get(current_model, "UNKNOWN")
PendingPred(next, m) == Get(next.predictions, m, "UNKNOWN")
\* next_prediction.get("confidence", {}).get(current_model, 0.0)
PendingConf(next, m) == Get(Get(next, "confidence", EmptyDict), m, 0)
\* model_stats.get(current_model, {}).get("accuracy", 0) * 100
AccPercent(m) == IF m \in Models THEN model_stats[m].accuracy ELSE 0

\* "{conf:.2f}": the confidence in hundredths
Fmt2(conf) == (conf + 50) \div 100

\* the f-string prediction_output, field by field
Render(issue_prev, report, issue_next, selected_model, pred, conf, acc) ==
    [issue_prev |-> issue_prev,
     lines |-> report,
     issue_next |-> issue_next,
     using |-> Upper(selected_model),
     pred |-> Upper(pred),
     conf |-> Fmt2(conf),
     acc |-> acc]

LogSites == {"evaluate_models", "write_prediction", "main"}

----------------------------------------------------------------------------
(* Inputs: configuration documents and feed documents *)

\* config.json: unreadable, or an object with any of the two options
Configs ==
    {[t |-> "unreadable"]} \cup
    {[t |-> "dict", v |-> c] : c \in
        {[auto_switching |-> FALSE],
         [manual_model |-> "Model 4"],
         [auto_switching |-> FALSE, manual_model |-> "Model 1"],
         [auto_switching |-> TRUE, manual_model |-> "Model 9"]}}

MaxFeedLen == 2

Str(chars) == [t |-> "str", v |-> chars]

RawModel(name, pred, actual) ==
    [name |-> name, predicted_class |-> pred, actual_class |-> actual]
RawNext(name, pred, conf) ==
    [name |-> name, predicted_class |-> pred, confidence |-> conf]

\* evaluation sections, ground truth "x"
EvalSections ==
    {[issue_id |-> "i1",
      models |-> <<RawModel("LogisticRegression", "y", "x"),
                   RawModel("HoeffdingTree", "X", "x"),
                   RawModel("NaiveBayes", "y", "x"),
                   RawModel("BaggingClassifier", "y", "x")>>],
     [issue_id |-> "i1",
      models |-> <<RawModel("HoeffdingTree", "y", "x"),
                   RawModel("RandomForest", "x", "x"),
                   RawModel("LogisticRegression", "x", "x")>>]}

NextSections ==
    {[issue_id |-> "i2",
      models |-> <<RawNext("LogisticRegression", "x", Str(<<"7", "3", "%">>)),
                   RawNext("HoeffdingTree", "y", Str(<<"5", "0", ".", "2", "%">>)),
                   RawNext("NaiveBayes", "X", Str(<<"a", "b", "c", "%">>)),
                   RawNext("BaggingClassifier", "x", Str(<<"%", "9", "1">>))>>],
     [issue_id |-> "i2",
      models |-> <<RawNext("LogisticRegression", "y", [t |-> "num", v |-> <<>>]),
                   [name |-> "NaiveBayes", predicted_class |-> "x"],
                   RawNext("RandomForest", "x", Str(<<"8", "0", "%">>))>>]}

StructuredDocs ==
    {[t |-> "dict", v |-> [evaluation |-> e, next_issue_prediction |-> n]] :
        e \in EvalSections, n \in NextSections}

\* structured documents with a field missing inside a section
BrokenDocs ==
    LET e == CHOOSE x \in EvalSections : Len(x.models) = 3
        n == CHOOSE x \in NextSections : Len(x.models) = 3
    IN  {[t |-> "dict", v |-> [evaluation |-> [issue_id |-> "i1"],
                               next_issue_prediction |-> n]],
         [t |-> "dict", v |-> [evaluation |-> e,
                               next_issue_prediction |->
                                   [issue_id |-> "i2",
                                    models |-> <<[predicted_class |-> "x"]>>]]]}

\* already-normalised entries of the pass-through path
PassCompleted ==
    [issue |-> "i1", actual |-> "x",
     predictions |-> [m \in {"Model 2", "Model 4"} |-> IF m = "Model 2" THEN "y" ELSE "x"]]
PassPending ==
    [issue |-> "i2",
     predictions |-> [m \in {"Model 2", "Model 4"} |-> IF m = "Model 2" THEN "x" ELSE "y"],
     confidence |-> [m \in {"Model 2"} |-> 6100]]
PassEntries == {PassCompleted, PassPending}

\* arrays of normalised entries, and one whose pending entry has no predictions
PassDocs ==
    {[t |-> "list", items |-> s] :
        s \in UNION {[1..n -> PassEntries] : n \in 0..MaxFeedLen}}
    \cup {[t |-> "list", items |-> <<PassCompleted, [issue |-> "i3"]>>]}

Docs == {[t |-> "unreadable"], [t |-> "scalar"]}
        \cup StructuredDocs \cup BrokenDocs \cup PassDocs

----------------------------------------------------------------------------
(* main *)

MaxEvals == 2

\* nothing observed yet
NoHist == [evals |-> 0, later |-> NoneV]

Init ==
    /\ pc = "start"
    /\ current_model = DefaultModel
    /\ auto_switching = DefaultAuto
    /\ config \in Configs
    /\ feed \in Docs
    /\ latest_result = NoneV
    /\ next_prediction = NoneV
    /\ published = NoneV
    /\ cycle_log = <<>>
    /\ err = NoErr
    /\ model_before = DefaultModel
    /\ evaluation_report = <<>>
    /\ steps = {}
    /\ hist = NoHist

\* an uncaught exception leaves main(): the process ends
Crash(kind, where) ==
    /\ pc' = "crashed"
    /\ err' = [kind |-> kind, where |-> where]

\* log_message("AI SYSTEM STARTED")
StartLog ==
    /\ pc = "start"
    /\ \E logOk \in BOOLEAN :
        IF logOk
        THEN /\ cycle_log' = Append(cycle_log, [kind |-> "started"])
             /\ pc' = "load_config"
             /\ err' = err
        ELSE /\ Crash("LogWriteError", "main")
             /\ cycle_log' = cycle_log
    /\ UNCHANGED <<current_model, auto_switching, config, feed, latest_result,
                   next_prediction, published, model_before, evaluation_report, steps>>

\* config.get("auto_switching", True)
ConfigAuto(cfg) == Get(cfg, "auto_switching", TRUE)
ConfigModel_DefaultFirst(cfg) == Get(cfg, "manual_model", ModelOrder[1])
\* config.get("manual_model", "Model 2")
ConfigModel(cfg) == Get(cfg, "manual_model", "Model 2")

\* load_config()
LoadConfig ==
    /\ pc = "load_config"
    /\ \E logOk \in BOOLEAN, logOk2 \in BOOLEAN :
        /\ IF config.t = "dict"
           THEN /\ auto_switching' = ConfigAuto(config.v)
                /\ current_model' = ConfigModel(config.v)
           ELSE UNCHANGED <<auto_switching, current_model>>
        /\ IF config.t = "dict" /\ logOk
           THEN /\ cycle_log' = Append(cycle_log, [kind |-> "config_loaded"])
                /\ pc' = "fetch_complete"
                /\ err' = err
           ELSE IF logOk2
           THEN /\ cycle_log' = Append(cycle_log, [kind |-> "config_error"])
                /\ pc' = "fetch_complete"
                /\ err' = err
           ELSE /\ Crash("LogWriteError", "load_config")
                /\ cycle_log' = cycle_log
    /\ model_before' = current_model'
    /\ UNCHANGED <<config, feed, latest_result, next_prediction, published,
                   evaluation_report, steps>>

\* the try body is left by an exception
Raise(kind, where) ==
    /\ pc' = "except"
    /\ err' = [kind |-> kind, where |-> where]

\* latest_result = get_latest_complete(), first statement of an iteration
FetchComplete ==
    /\ pc = "fetch_complete"
    /\ \E logOk \in BOOLEAN :
        LET r == Accessor(feed, TRUE, logOk)
        IN  /\ cycle_log' = cycle_log \o r.log
            /\ IF r.raised # "none"
               THEN /\ Raise(r.raised, r.where)
                    /\ latest_result' = NoneV
               ELSE /\ pc' = "fetch_next"
                    /\ err' = NoErr
                    /\ latest_result' = r.value
    /\ UNCHANGED <<current_model, auto_switching, config, feed, next_prediction,
                   published, model_before, evaluation_report, steps>>

\* next_prediction = get_next_prediction_entry()
FetchNext ==
    /\ pc = "fetch_next"
    /\ \E logOk \in BOOLEAN :
        LET r == Accessor(feed, FALSE, logOk)
        IN  /\ cycle_log' = cycle_log \o r.log
            /\ IF r.raised # "none"
               THEN /\ Raise(r.raised, r.where)
                    /\ next_prediction' = NoneV
               ELSE /\ pc' = "process"
                    /\ err' = NoErr
                    /\ next_prediction' = r.value
    /\ UNCHANGED <<current_model, auto_switching, config, feed, latest_result,
                   published, model_before, evaluation_report, steps>>

\* "if latest_result and next_prediction:" is false
ProcessSkip ==
    /\ pc = "process"
    /\ ~(Truthy(latest_result) /\ Truthy(next_prediction))
    /\ pc' = "wait"
    /\ UNCHANGED <<current_model, auto_switching, config, feed, latest_result,
                   next_prediction, published, cycle_log, err, model_before,
                   evaluation_report, steps>>

\* next_prediction["predictions"] raises KeyError
ProcessKeyError ==
    /\ pc = "process"
    /\ Truthy(latest_result) /\ Truthy(next_prediction)
    /\ "predictions" \notin DOMAIN next_prediction
    /\ Raise("KeyError", "main")
    /\ UNCHANGED <<current_model, auto_switching, config, feed, latest_result,
                   next_prediction, published, cycle_log, model_before,
                   evaluation_report, steps>>

\* the body of "if latest_result and next_prediction:"
\* logFail: the call site whose log_message raises; pubOk: predictions.txt is written
ProcessCycle ==
    /\ pc = "process"
    /\ Truthy(latest_result) /\ Truthy(next_prediction)
    /\ "predictions" \in DOMAIN next_prediction
    /\ \E logFail \in LogSites \cup {"none"}, pubOk \in BOOLEAN :
        LET issue_prev == Get(latest_result, "issue", NoneS)
            issue_next == Get(next_prediction, "issue", NoneS)
            pred == PendingPred(next_prediction, current_model)
            conf == PendingConf(next_prediction, current_model)
            acc == AccPercent(current_model)
            ev == EvaluateModels(latest_result, current_model, auto_switching,
                                 logFail # "evaluate_models")
            out == Render(issue_prev, ev.report, issue_next, ev.selected, pred, conf, acc)
        IN  /\ model_before' = current_model
            /\ current_model' = ev.selected
            /\ IF ev.raised
               THEN /\ Raise("LogWriteError", "evaluate_models")
                    /\ cycle_log' = cycle_log
                    /\ UNCHANGED <<published, evaluation_report, steps>>
               ELSE /\ evaluation_report' = ev.report
                    /\ IF ~pubOk
                       THEN /\ Raise("OSError", "write_prediction")
                            /\ cycle_log' = cycle_log \o ev.log
                            /\ steps' = {"evaluate"}
                            /\ published' = published
                       ELSE /\ published' = out
                            /\ IF logFail = "write_prediction"
                               THEN /\ Raise("LogWriteError", "write_prediction")
                                    /\ cycle_log' = cycle_log \o ev.log
                                    /\ steps' = {"evaluate", "publish"}
                               ELSE IF logFail = "main"
                               THEN /\ Raise("LogWriteError", "main")
                                    /\ cycle_log' = cycle_log \o ev.log
                                                    \o <<[kind |-> "updated"]>>
                                    /\ steps' = {"evaluate", "publish"}
                               ELSE /\ pc' = "wait"
                                    /\ err' = err
                                    /\ cycle_log' = cycle_log \o ev.log
                                          \o <<[kind |-> "updated"], [kind |-> "processed"]>>
                                    /\ steps' = {"evaluate", "publish", "processed"}
    /\ UNCHANGED <<auto_switching, config, feed, latest_result, next_prediction>>

\* except Exception as e: log_message(error)
HandleError ==
    /\ pc = "except"
    /\ \E logOk \in BOOLEAN :
        IF logOk
        THEN /\ cycle_log' = Append(cycle_log, [kind |-> "error", detail |-> err])
             /\ pc' = "wait"
             /\ err' = NoErr
        ELSE /\ Crash("LogWriteError", "except")
             /\ cycle_log' = cycle_log
    /\ UNCHANGED <<current_model, auto_switching, config, feed, latest_result,
                   next_prediction, published, model_before, evaluation_report, steps>>

\* time.sleep(2), then the next iteration of "while True" begins: the locals
\* of the finished iteration are dead and the per-iteration records start anew
Wait ==
    /\ pc = "wait"
    /\ pc' = "fetch_complete"
    /\ latest_result' = NoneV
    /\ next_prediction' = NoneV
    /\ cycle_log' = <<>>
    /\ err' = NoErr
    /\ model_before' = current_model
    /\ evaluation_report' = <<>>
    /\ steps' = {}
    /\ UNCHANGED <<current_model, auto_switching, config, feed, published>>

\* the external producer replaces data.json
WriteFeed ==
    /\ pc \in {"fetch_complete", "fetch_next"}
    /\ feed' \in Docs \ {feed}
    /\ UNCHANGED <<pc, current_model, auto_switching, config, latest_result,
                   next_prediction, published, cycle_log, err, model_before,
                   evaluation_report, steps>>

\* hist after an iteration's pass through the if body:
\*   evals  the iterations so far in which evaluate_models returned (up to MaxEvals)
\*   later  the report written by an iteration that followed such an iteration
Observe ==
    hist' = [evals |-> IF "evaluate" \in steps' /\ hist.evals < MaxEvals
                       THEN hist.evals + 1 ELSE hist.evals,
             later |-> IF hist.evals >= 1 /\ "publish" \in steps'
                       THEN published' ELSE hist.later]

Next ==
    \/ StartLog /\ UNCHANGED hist
    \/ LoadConfig /\ UNCHANGED hist
    \/ FetchComplete /\ UNCHANGED hist
    \/ FetchNext /\ UNCHANGED hist
    \/ ProcessSkip /\ UNCHANGED hist
    \/ ProcessKeyError /\ UNCHANGED hist
    \/ ProcessCycle /\ UNCHANGED hist
    \/ HandleError /\ UNCHANGED hist
    \/ Wait /\ UNCHANGED hist
    \/ WriteFeed /\ UNCHANGED hist

Spec == Init /\ [][Next]_vars

----------------------------------------------------------------------------
(* One pass of the body of the loop over every completed entry: the        *)
(* specification under which the claims about evaluate_models are checked  *)

\* every completed entry over Labels: any ground truth (or None), any partial
\* prediction map, and an entry without a predictions key
CompletedEntries ==
    {[issue |-> "i1", actual |-> a, predictions |-> p] :
        a \in Labels \cup {NoneS},
        p \in UNION {[D -> Labels] : D \in SUBSET Models}}
    \cup {[issue |-> "i1", actual |-> "x"]}

PendingEntries ==
    {[issue |-> "i2",
      predictions |-> [m \in Models |->
                          CASE m = "Model 1" -> "x" [] m = "Model 2" -> "y"
                            [] m = "Model 3" -> "X" [] OTHER -> "y"],
      confidence |-> [m \in Models |->
                          CASE m = "Model 1" -> 7300 [] m = "Model 2" -> 5020
                            [] m = "Model 3" -> 0 [] OTHER -> 9100]],
     [issue |-> "i2",
      predictions |-> [m \in {"Model 1"} |-> "y"],
      confidence |-> [m \in {"Model 1"} |-> 6100]]}

InitEval ==
    /\ pc = "process"
    /\ current_model \in Models
    /\ auto_switching \in BOOLEAN
    /\ config = [t |-> "dict",
                 v |-> [auto_switching |-> auto_switching, manual_model |-> current_model]]
    /\ latest_result \in CompletedEntries
    /\ next_prediction \in PendingEntries
    /\ feed = [t |-> "list", items |-> <<latest_result, next_prediction>>]
    /\ published = NoneV
    /\ cycle_log = <<>>
    /\ err = NoErr
    /\ model_before = current_model
    /\ evaluation_report = <<>>
    /\ steps = {}
    /\ hist = NoHist

NextEval ==
    \/ ProcessCycle /\ UNCHANGED hist
    \/ HandleError /\ UNCHANGED hist

SpecEval == InitEval /\ [][NextEval]_vars

----------------------------------------------------------------------------
(* The agent on a feed that is not rewritten while it runs: consecutive     *)
(* iterations re-read the same data.json                                    *)

\* normalised entries with distinct issues, two of each shape
StaticEntries ==
    {PassCompleted, PassPending,
     [issue |-> "i0", actual |-> "y",
      predictions |-> [m \in {"Model 1", "Model 2"} |-> "y"]],
     [issue |-> "i4",
      predictions |-> [m \in {"Model 1"} |-> "x"],
      confidence |-> [m \in {"Model 1"} |-> 2500]]}

StaticDocs ==
    Docs \cup {[t |-> "list", items |-> s] :
                 s \in UNION {[1..n -> StaticEntries] : n \in 0..MaxFeedLen}}

InitStatic ==
    /\ pc = "start"
    /\ current_model = DefaultModel
    /\ auto_switching = DefaultAuto
    /\ config \in Configs
    /\ feed \in StaticDocs
    /\ latest_result = NoneV
    /\ next_prediction = NoneV
    /\ published = NoneV
    /\ cycle_log = <<>>
    /\ err = NoErr
    /\ model_before = DefaultModel
    /\ evaluation_report = <<>>
    /\ steps = {}
    /\ hist = NoHist

NextStatic ==
    \/ StartLog /\ UNCHANGED hist
    \/ LoadConfig /\ UNCHANGED hist
    \/ FetchComplete /\ UNCHANGED hist
    \/ FetchNext /\ UNCHANGED hist
    \/ ProcessSkip /\ UNCHANGED hist
    \/ ProcessKeyError /\ UNCHANGED hist
    \/ ProcessCycle /\ Observe
    \/ HandleError /\ UNCHANGED hist
    \/ Wait /\ UNCHANGED hist

SpecStatic == InitStatic /\ [][NextStatic]_vars

----------------------------------------------------------------------------
(* Vocabulary of the properties *)

\* evaluate_models returned normally in the current iteration
AfterEvaluate == "evaluate" \in steps
\* predictions.txt was rewritten in the current iteration
AfterPublish == "publish" \in steps

\* the candidates evaluated on entry e that won / lost
Won(e) == {m \in Evaluated(e) : Pred(e, m) = Actual(e)}
Lost(e) == {m \in Evaluated(e) : Pred(e, m) # Actual(e)}

\* the member of S with the highest static accuracy, ties by configuration order
BestOf(S) ==
    CHOOSE m \in S : \A n \in S \ {m} :
        \/ model_stats[m].accuracy > model_stats[n].accuracy
        \/ /\ model_stats[m].accuracy = model_stats[n].accuracy
           /\ IndexOf(ModelOrder, m) < IndexOf(ModelOrder, n)

\* the switch and manual-mode records of the current iteration
DecisionRecords ==
    {i \in DOMAIN cycle_log : cycle_log[i].kind \in {"switch", "manual"}}

----------------------------------------------------------------------------
(* Properties *)

\* C1: in auto mode, when the active candidate was evaluated and lost and
\* another evaluated candidate won, the active candidate after evaluate is the
\* winner with the highest static accuracy (never an unevaluated candidate).
C1_SwitchToBestWinner ==
    (/\ AfterEvaluate
     /\ auto_switching
     /\ model_before \in Lost(latest_result)
     /\ Won(latest_result) # {})
    => current_model = BestOf(Won(latest_result))

\* C2: in auto mode, when the active candidate was evaluated and lost and no
\* other candidate won, the active candidate after evaluate is the candidate
\* with the globally highest static accuracy.
C2_FallbackToGlobalBest ==
    (/\ AfterEvaluate
     /\ auto_switching
     /\ model_before \in Lost(latest_result)
     /\ Won(latest_result) = {})
    => current_model = BestOf(Models)

\* C3: with auto_switching false, in every state after startup the active
\* candidate is the manual candidate taken from the configuration document.
C3_ManualModelFixed ==
    (pc \notin {"start", "load_config"} /\ ~auto_switching)
    => /\ config.t = "dict"
       /\ current_model = Get(config.v, "manual_model", "Model 2")

\* C3 witness: a manual-mode iteration has evaluated an entry in which the
\* active candidate lost and another candidate won, and reached the wait step.
C3_Witness ==
    /\ pc = "wait"
    /\ ~auto_switching
    /\ AfterEvaluate
    /\ model_before \in Lost(latest_result)
    /\ Won(latest_result) # {}

\* C4: if the active candidate won, or was not evaluated, in the completed
\* entry, evaluate leaves the active candidate unchanged (auto or manual mode).
C4_NoSwitchUnlessLost ==
    (AfterEvaluate /\ model_before \notin Lost(latest_result))
    => current_model = model_before

\* C4 witness: auto mode, the active candidate won while a candidate of higher
\* static accuracy won too, and evaluate has returned.
C4_Witness ==
    /\ AfterEvaluate
    /\ auto_switching
    /\ model_before \in Won(latest_result)
    /\ \E m \in Won(latest_result) :
          model_stats[m].accuracy > model_stats[model_before].accuracy

\* C5: the prediction, confidence and accuracy of a published report are those
\* of the candidate the report names as active (the active candidate after
\* that iteration's evaluate step).
C5_ReportDescribesActive ==
    AfterPublish
    => /\ published.using = Upper(current_model)
       /\ published.pred = Upper(PendingPred(next_prediction, current_model))
       /\ published.conf = Fmt2(PendingConf(next_prediction, current_model))
       /\ published.acc = AccPercent(current_model)

\* C6: every line of the evaluation report says WIN exactly when prediction
\* and outcome are equal ignoring letter case (the line holds both in upper
\* case), and LOSS otherwise.
C6_WinIsCaseInsensitive ==
    AfterEvaluate
    => \A i \in DOMAIN evaluation_report :
          (evaluation_report[i].result = "WIN")
          <=> (evaluation_report[i].pred = evaluation_report[i].actual)

\* C7: after startup no iteration ends the loop: a failure caught by the
\* except clause of main never leaves main.
C7_LoopNeverTerminates ==
    ~(pc = "crashed" /\ err.where = "except")

\* C8: a failed write to cpu.logs during the switch decision, the manual-mode
\* notice or the publish notices never aborts the try body of the iteration.
C8_LogFailureNeverAbortsCycle ==
    ~(pc = "except" /\ err.kind = "LogWriteError" /\ err.where \in LogSites)

\* C9: every evaluate call that changes the active candidate, and every
\* evaluate call in manual mode, appends exactly one switch/manual record.
C9_OneRecordPerDecision ==
    (AfterEvaluate /\ (current_model # model_before \/ ~auto_switching))
    => Cardinality(DecisionRecords) = 1

\* C10: load_data never propagates a failure for a structured document that
\* lacks fields inside its sections: the iteration sees an empty record set.
C10_MalformedFeedNeverRaises ==
    ~(pc = "except" /\ err.kind = "KeyError" /\ err.where = "load_data")

\* C11: when get_latest_complete or get_next_prediction_entry returned None,
\* the step main takes next publishes nothing, leaves the active candidate
\* alone, appends no record to the log (no completion, no error) and goes to
\* the wait step.
C11_SkipSilently ==
    [][(pc = "process" /\ (latest_result = NoneV \/ next_prediction = NoneV))
       => /\ pc' = "wait"
          /\ published' = published
          /\ current_model' = current_model
          /\ cycle_log' = cycle_log]_vars

\* C11 witness: an iteration found a completed entry but no pending one and
\* reached the wait step without any log record, while predictions.txt still
\* holds the report of an earlier iteration.
C11_Witness ==
    /\ pc = "wait"
    /\ latest_result # NoneV
    /\ next_prediction = NoneV
    /\ steps = {}
    /\ cycle_log = <<>>
    /\ published # NoneV

\* C12: when an iteration evaluates on a feed that is an array of normalised
\* entries, the pending entry it uses stands later in the array than the
\* completed entry it uses.
C12_PendingAfterCompleted ==
    (AfterEvaluate /\ feed.t = "list")
    => \E i, j \in DOMAIN feed.items :
          /\ feed.items[i] = latest_result
          /\ feed.items[j] = next_prediction
          /\ i < j

\* C14: for a structured document whose sections have all their other fields,
\* load_data does not raise, and every mapped record of the next-prediction
\* section whose confidence is missing, not a string, or holds a character
\* that is neither a digit, a point nor a percent sign is stored with
\* confidence 0 and with its prediction, in a pending entry that exists.
C14_BadConfidenceIsZero ==
    feed \in StructuredDocs
    => /\ ~(pc = "except" /\ err.where = "load_data")
       /\ pc = "process" =>
            /\ next_prediction # NoneV
            /\ \A i \in DOMAIN feed.v.next_issue_prediction.models :
                 LET models == feed.v.next_issue_prediction.models
                     model == models[i]
                 IN  (/\ model.name \in DOMAIN model_mapping
                      /\ \A j \in DOMAIN models : j > i => models[j].name # model.name
                      /\ \/ "confidence" \notin DOMAIN model
                         \/ model.confidence.t # "str"
                         \/ \E k \in DOMAIN model.confidence.v :
                               /\ ~IsDigit(model.confidence.v[k])
                               /\ model.confidence.v[k] \notin {".", "%"})
                     => /\ next_prediction.confidence[model_mapping[model.name]] = 0
                        /\ next_prediction.predictions[model_mapping[model.name]]
                               = model.predicted_class

\* C14 witness: the pending entry was built from a section whose NaiveBayes
\* record carries the confidence "abc%", which is stored as 0 for Model 3.
C14_Witness ==
    /\ pc = "process"
    /\ feed \in StructuredDocs
    /\ \E i \in DOMAIN feed.v.next_issue_prediction.models :
          LET model == feed.v.next_issue_prediction.models[i]
          IN  /\ model.name = "NaiveBayes"
              /\ "confidence" \in DOMAIN model
              /\ model.confidence = Str(<<"a", "b", "c", "%">>)
    /\ next_prediction.confidence["Model 3"] = 0
    /\ next_prediction.predictions["Model 3"] = "X"

\* C15: unless the process ends at startup because cpu.logs cannot be written,
\* load_config leads to the first iteration; with an unreadable config.json
\* the mode is automatic, the active candidate is the second candidate and a
\* config error record is appended; with a readable one each option takes its
\* value, or its default when absent, whatever the other option is.
C15_DefaultsOnBadConfig ==
    [][(pc = "load_config" /\ pc' # "crashed")
       => /\ pc' = "fetch_complete"
          /\ config.t = "unreadable" =>
                /\ auto_switching' = TRUE
                /\ current_model' = ModelOrder[2]
                /\ cycle_log' = Append(cycle_log, [kind |-> "config_error"])
          /\ config.t = "dict" =>
                /\ auto_switching' = IF "auto_switching" \in DOMAIN config.v
                                     THEN config.v.auto_switching ELSE TRUE
                /\ current_model' = IF "manual_model" \in DOMAIN config.v
                                    THEN config.v.manual_model ELSE ModelOrder[2]]_vars

\* C15 witness: the first iteration is about to start after an unreadable
\* config.json was reported, with both defaults in force.
C15_Witness ==
    /\ pc = "fetch_complete"
    /\ config.t = "unreadable"
    /\ cycle_log = <<[kind |-> "started"], [kind |-> "config_error"]>>
    /\ auto_switching = TRUE
    /\ current_model = "Model 2"

\* C16: once load_config has run, the active candidate is one of the four
\* candidates of model_stats.
C16_ActiveIsCandidate ==
    pc \notin {"start", "load_config"} => current_model \in Models

\* C17: after evaluate_models, the report has one line for each candidate for
\* which the completed entry holds a prediction and an outcome that is not
\* None, in the order of model_stats, and no other line (none at all when no
\* candidate qualifies).
C17_ReportLines ==
    AfterEvaluate
    => LET Has(m) == /\ "actual" \in DOMAIN latest_result
                     /\ latest_result.actual # NoneS
                     /\ "predictions" \in DOMAIN latest_result
                     /\ m \in DOMAIN latest_result.predictions
                     /\ latest_result.predictions[m] # NoneS
           ev == SelectSeq(ModelOrder, Has)
       IN  /\ Len(evaluation_report) = Len(ev)
           /\ \A i \in DOMAIN ev : evaluation_report[i].model = Upper(ev[i])

\* C17 witness: the completed entry holds predictions of Model 3 and Model 1
\* only, and the report consists of the line of Model 1, then that of Model 3.
C17_Witness ==
    /\ AfterEvaluate
    /\ "predictions" \in DOMAIN latest_result
    /\ DOMAIN latest_result.predictions = {"Model 1", "Model 3"}
    /\ Len(evaluation_report) = 2
    /\ evaluation_report[1].model = "MODEL 1"
    /\ evaluation_report[2].model = "MODEL 3"

\* C18: when both accessors have returned, latest_result is the entry of the
\* loaded list closest to its end that has the key "actual", next_prediction
\* the one closest to its end without that key, and each is None when the
\* list holds no entry of its shape.
C18_AccessorsReturnLast ==
    pc = "process"
    => LET items == LoadData(feed, TRUE).data.items
           done == {i \in DOMAIN items : "actual" \in DOMAIN items[i]}
           open == DOMAIN items \ done
       IN  /\ done = {} => latest_result = NoneV
           /\ done # {} => \E i \in done : /\ latest_result = items[i]
                                           /\ \A j \in done : j <= i
           /\ open = {} => next_prediction = NoneV
           /\ open # {} => \E i \in open : /\ next_prediction = items[i]
                                           /\ \A j \in open : j <= i

\* C18 witness: the list holds two different completed entries and no pending
\* one; the second was returned as latest_result and None as next_prediction.
C18_Witness ==
    /\ pc = "process"
    /\ feed.t = "list"
    /\ Len(feed.items) = 2
    /\ "actual" \in DOMAIN feed.items[1]
    /\ "actual" \in DOMAIN feed.items[2]
    /\ feed.items[1] # feed.items[2]
    /\ latest_result = feed.items[2]
    /\ next_prediction = NoneV

\* C19: the completed entry and the pending entry an iteration evaluates and
\* renders are the two entries the accessors return for one and the same
\* content of data.json.
C19_EntriesFromOneVersion ==
    AfterEvaluate
    => \E d \in Docs :
          /\ latest_result = Accessor(d, TRUE, TRUE).value
          /\ next_prediction = Accessor(d, FALSE, TRUE).value

\* C20: in auto mode on a data.json that is not rewritten, once evaluate_models
\* has returned in some iteration the active candidate never changes again,
\* and the reports written by the iterations after that one are all the same.
C20_NoOscillation ==
    [][auto_switching
       => /\ hist.evals >= 1 => current_model' = current_model
          /\ hist.later # NoneV => hist.later' = hist.later]_vars

\* C20 witness: with the default configuration the first evaluation moved the
\* active candidate away from Model 2, and MaxEvals evaluations have returned,
\* the later ones having written their report.
C20_Witness ==
    /\ auto_switching
    /\ config.t = "unreadable"
    /\ current_model # "Model 2"
    /\ hist.evals = MaxEvals
    /\ hist.later # NoneV
    /\ hist.later = published

====
